---- MODULE Spec2Model ----
(***************************************************************************)
(* Model of crates/ai00-server/src/main.rs: the path sandbox (build_path,  *)
(* check_path_permitted), asset provisioning (load_web, load_plugin and    *)
(* the plugin scan of main) and the listener bootstrap of main.            *)
(***************************************************************************)
EXTENDS Integers, Sequences, FiniteSets, TLC

VARIABLES
    \* build_path: the two arguments and the value returned
    bp_root, bp_name, bp_result, bp_pc,
    \* check_path_permitted: the filesystem it canonicalizes against (the
    \* directories that exist, the target of the symbolic link "l" of the
    \* working directory), its arguments and the verdict of each call
    fs_dirs, fs_link, cp_path, cp_permitted, cp_results,
    \* main: the position in main and what has happened so far
    pc, events, failed,
    \* main: the build target, the command line, the loaded configuration
    windows, args, listen, web,
    \* main: the channel to model_route
    channel,
    \* main: the archive of the web bundle (its tree), the temporary
    \* directory it is extracted into and whether serve_path is Some
    bundle, served, serve_path,
    \* main: the directory assets/www/plugins, the entries still to visit,
    \* the archives opened by load_plugin and the log lines about plugins
    scan_exists, scan_entries, scanned, pending, opened, logs,
    \* main: the (acme, tls) pair, whether the certificate files were read,
    \* the acceptors bound and the number of calls of serve
    flags, cert_read, acceptors, serves

bpVars == <<bp_root, bp_name, bp_result, bp_pc>>
cpVars == <<fs_dirs, fs_link, cp_path, cp_permitted, cp_results>>
envVars == <<windows, args, scan_entries>>
cfgVars == <<listen, web>>
webVars == <<bundle, served, serve_path>>
plugVars == <<scan_exists, scanned, pending, opened, logs>>
netVars == <<flags, cert_read, acceptors, serves>>
mainVars == <<pc, events, failed, envVars, cfgVars, channel, webVars,
              plugVars, netVars>>
vars == <<bpVars, cpVars, mainVars>>

None == "none"

(***************************************************************************)
(* Paths.  A path is the text split at "/": whether it begins with "/",    *)
(* and its non-empty segments.  std::path compares paths by components.    *)
(***************************************************************************)
MaxRootSegs == 2
MaxNameSegs == 3

Segments == {"a", "b", ".", ".."}

SeqsUpTo(S, n) == UNION {[1..k -> S] : k \in 0..n}

Paths(n) == [abs : BOOLEAN, segs : SeqsUpTo(Segments, n)]

RECURSIVE DropCurDir(_)
DropCurDir(s) ==
    IF s = <<>> THEN <<>>
    ELSE IF Head(s) = "." THEN DropCurDir(Tail(s))
    ELSE <<Head(s)>> \o DropCurDir(Tail(s))

\* Path::components: RootDir first for a rooted path; "." is kept only as the
\* first component of a relative path, every other "." is skipped.
Components(p) ==
    IF p.abs THEN <<"/">> \o DropCurDir(p.segs)
    ELSE IF p.segs # <<>> /\ Head(p.segs) = "."
         THEN <<".">> \o DropCurDir(Tail(p.segs))
         ELSE DropCurDir(p.segs)

\* Path::is_absolute (unix: has_root)
IsAbsolute(p) == p.abs

\* Path::starts_with: base's components are a prefix of p's components
StartsWith(p, base) ==
    LET c == Components(p)
        b == Components(base)
    IN  Len(b) <= Len(c) /\ SubSeq(c, 1, Len(b)) = b

\* Path::ends_with(Path::new("..")) on a component list
EndsWithParentDir(c) == c # <<>> /\ c[Len(c)] = ".."

\* Path::ancestors: the path itself, then each parent() in turn; parent() is
\* None once the path ends in the root or is empty.
AncestorsSkipSelf(p) ==
    LET c == Components(p)
        low == IF p.abs THEN 1 ELSE 0
    IN  {SubSeq(c, 1, k) : k \in low..(Len(c) - 1)}

Ancestors(p) ==
    LET c == Components(p)
        low == IF p.abs THEN 1 ELSE 0
    IN  {SubSeq(c, 1, k) : k \in low..Len(c)}

\* PathBuf::join / push: an absolute argument replaces the path, a relative
\* one is appended after a separator.
Join(base, p) ==
    IF p.abs THEN p ELSE [abs |-> base.abs, segs |-> base.segs \o p.segs]

Ok(p) == [ok |-> TRUE, path |-> p, err |-> None]
Err(e) == [ok |-> FALSE, path |-> None, err |-> e]

ErrDotDot == "cannot have \"..\" in names"
ErrNotPermitted == "path not permitted"

\* a candidate that is used as it is, without joining it onto the root
UsedAsIsNoPrefixTest(permitted, name) == IsAbsolute(name)

UsedAsIs(permitted, name) == IsAbsolute(name) \/ StartsWith(name, permitted)

build_path(permitted, name) ==
    IF \E a \in Ancestors(name) : EndsWithParentDir(a)
    THEN Err(ErrDotDot)
    ELSE LET path == IF UsedAsIs(permitted, name)
                     THEN name
                     ELSE Join(permitted, name)
         IN  IF StartsWith(path, permitted)
             THEN Ok(path)
             ELSE Err(ErrNotPermitted)

(***************************************************************************)
(* check_path_permitted.  Canonical paths are absolute and free of "..",   *)
(* "." and links; the working directory is /w.                             *)
(***************************************************************************)
MaxPermitted == 2
MaxPathSegs == 2
MaxCalls == 2

RootPath == [abs |-> TRUE, segs |-> <<>>]
CurrentDir == [abs |-> TRUE, segs |-> <<"w">>]

Under(base, seg) == [abs |-> TRUE, segs |-> Append(base.segs, seg)]

\* the directories a filesystem may hold besides / and /w
OptionalDirs ==
    {Under(CurrentDir, "a"), Under(Under(CurrentDir, "a"), "c"),
     Under(CurrentDir, "b"), Under(RootPath, "o")}

Parent(p) ==
    IF p.segs = <<>> THEN p
    ELSE [abs |-> TRUE, segs |-> SubSeq(p.segs, 1, Len(p.segs) - 1)]

Filesystems ==
    {d \in SUBSET OptionalDirs :
        \A x \in d : Parent(x) \in d \cup {RootPath, CurrentDir}}

\* /w/l is absent (NoLink) or a symbolic link to one of these, dangling when
\* the target does not exist
NoLink == [abs |-> FALSE, segs |-> <<>>]
LinkTargets == {NoLink, Under(CurrentDir, "a"), Under(RootPath, "o")}

Exists(dirs, p) == p \in dirs \cup {RootPath, CurrentDir}

\* one step of fs::canonicalize: from the canonical directory cur through
\* the segment seg
Step(dirs, link, cur, seg) ==
    IF ~cur.ok THEN cur
    ELSE IF seg = "." THEN cur
    ELSE IF seg = ".." THEN Ok(Parent(cur.path))
    ELSE IF seg = "l" /\ cur.path = CurrentDir /\ link # NoLink
         THEN IF Exists(dirs, link) THEN Ok(link) ELSE Err("io")
    ELSE IF Exists(dirs, Under(cur.path, seg)) THEN Ok(Under(cur.path, seg))
    ELSE Err("io")

RECURSIVE Walk(_, _, _, _)
Walk(dirs, link, cur, segs) ==
    IF segs = <<>> THEN cur
    ELSE Walk(dirs, link, Step(dirs, link, cur, Head(segs)), Tail(segs))

\* Path::canonicalize: a relative path is resolved from the working directory
Canonicalize(dirs, link, p) ==
    Walk(dirs, link, Ok(IF p.abs THEN RootPath ELSE CurrentDir), p.segs)

OkUnit == [ok |-> TRUE, path |-> None, err |-> None]

RECURSIVE CheckFrom(_, _, _, _, _)
CheckFrom(dirs, link, path, permitted, i) ==
    IF i > Len(permitted) THEN Err(ErrNotPermitted)
    ELSE LET sub == Canonicalize(dirs, link, Join(CurrentDir, permitted[i]))
             p == Canonicalize(dirs, link, path)
         IN  IF ~sub.ok THEN Err("io")
             ELSE IF ~p.ok THEN Err("io")
             ELSE IF StartsWith(p.path, sub.path) THEN OkUnit
             ELSE CheckFrom(dirs, link, path, permitted, i + 1)

check_path_permitted(dirs, link, path, permitted) ==
    CheckFrom(dirs, link, path, permitted, 1)

(***************************************************************************)
(* main: file names, the plugin scan and load_plugin.  A file name is the  *)
(* list of its parts between dots (".zip" is <<"", "zip">>); a path inside *)
(* the temporary directory is a list of file names.                        *)
(***************************************************************************)
MaxEntries == 2

\* Path::extension: the part after the last dot; None without a dot, and
\* None when nothing precedes the only dot
Extension(f) ==
    IF Len(f) = 1 \/ (Len(f) = 2 /\ f[1] = "") THEN <<None>>
    ELSE <<f[Len(f)]>>

\* Path::file_stem: the name without its extension
FileStem(f) ==
    IF Extension(f) = <<None>> THEN f ELSE SubSeq(f, 1, Len(f) - 1)

File(f) == [name |-> f, file |-> TRUE]
Directory(f) == [name |-> f, file |-> FALSE]

\* what assets/www/plugins may hold
DirEntries ==
    {File(<<"foo", "zip">>), File(<<"bar", "zip">>), File(<<"api", "zip">>),
     File(<<"foo", "txt">>), File(<<"", "zip">>), Directory(<<"pack", "zip">>)}

Listings == {l \in SUBSET DirEntries : Cardinality(l) <= MaxEntries}

\* the filter chain of the scan without the test of the stem
IsPluginAnyStem(x) == x.file /\ Extension(x.name) = <<"zip">>

\* the filter chain of the scan: a file, with extension zip, whose stem is
\* not api
IsPlugin(x) ==
    /\ x.file
    /\ Extension(x.name) = <<"zip">>
    /\ FileStem(x.name) # <<"api">>

Node(path, isFile) == [path |-> path, file |-> isFile]

PluginsRoot == <<<<"plugins">>>>
PluginDir(stem) == <<<<"plugins">>, stem>>
PluginContent(stem) == <<<<"plugins">>, stem, <<"index", "js">>>>

\* the trees a web bundle may hold
Bundles ==
    {{Node(<<<<"index", "html">>>>, TRUE)},
     {Node(<<<<"index", "html">>>>, TRUE), Node(PluginsRoot, FALSE)},
     {Node(PluginsRoot, FALSE), Node(PluginDir(<<"foo">>), FALSE)},
     {Node(PluginsRoot, FALSE), Node(<<<<"plugins">>, <<"bar", "zip">>>>, TRUE)}}

\* Path::exists
PathExists(tree, path) == \E n \in tree : n.path = path
IsDir(tree, path) == Node(path, FALSE) \in tree

PluginFaults == {"none", "open", "extract"}

\* load_plugin(path, target, name) on the tree of target: the file is opened
\* and mapped, target/plugins is created when absent, target/plugins/name is
\* created (an error when it exists) and the archive is extracted into it.
\* fault is what the environment does to this archive: it cannot be opened,
\* or its extraction fails.
load_plugin(tree, stem, fault) ==
    IF fault = "open" THEN [ok |-> FALSE, tree |-> tree, opened |-> FALSE]
    ELSE LET withRoot == IF PathExists(tree, PluginsRoot) THEN tree
                         ELSE tree \cup {Node(PluginsRoot, FALSE)}
             dir == PluginDir(stem)
         IN  IF PathExists(withRoot, dir) \/ ~IsDir(withRoot, PluginsRoot)
             THEN [ok |-> FALSE, tree |-> withRoot, opened |-> TRUE]
             ELSE IF fault = "extract"
             THEN [ok |-> FALSE, tree |-> withRoot \cup {Node(dir, FALSE)},
                   opened |-> TRUE]
             ELSE [ok |-> TRUE,
                   tree |-> withRoot \cup {Node(dir, FALSE),
                                           Node(PluginContent(stem), TRUE)},
                   opened |-> TRUE]

(***************************************************************************)
(* main: the listener bootstrap.                                           *)
(***************************************************************************)
Unspecified4 == "0.0.0.0"
Unspecified6 == "::"
Ips == {Unspecified4, "127.0.0.1", Unspecified6, "::1"}
IsV6(ip) == ip \in {Unspecified6, "::1"}
IsUnspecified(ip) == ip \in {Unspecified4, Unspecified6}

Domains == {"local", "localhost", "example.com"}
ListenPorts == {"65530"}
ArgPorts == {None, "8080"}
ArgIps == {None, "::1"}
ListenIps == {"127.0.0.1", Unspecified6, "::1"}

Listens == [ip : ListenIps, port : ListenPorts, domain : Domains,
            tls : BOOLEAN, acme : BOOLEAN]
NoListen == [ip |-> None, port |-> None, domain |-> None,
             tls |-> FALSE, acme |-> FALSE]

UnwrapOr(opt, default) == IF opt = None THEN default ELSE opt

\* let (ipv4_addr, ipv6_addr) = match ip_addr
SplitIp(ip) ==
    IF IsV6(ip) THEN [v4 |-> Unspecified4, v6 |-> ip]
    ELSE [v4 |-> ip, v6 |-> None]

\* the pair without the match on the domain
EffectiveFlagsAnyDomain(l) == [acme |-> l.acme, tls |-> TRUE]

\* the pair with tls left as configured unless acme is set
EffectiveFlagsTlsAsConfigured(l) ==
    IF l.domain = "local" THEN [acme |-> FALSE, tls |-> l.tls]
    ELSE [acme |-> l.acme, tls |-> l.acme \/ l.tls]

\* let (acme, tls) = match listen.domain.as_str()
EffectiveFlags(l) ==
    IF l.domain = "local" THEN [acme |-> FALSE, tls |-> l.tls]
    ELSE [acme |-> l.acme, tls |-> TRUE]

NoFlags == [acme |-> FALSE, tls |-> FALSE]

\* the branch of the if / else if chain
Strategy(f) == IF f.acme THEN "acme" ELSE IF f.tls THEN "tls" ELSE "plain"

Acceptor(kind, ip, port) == [kind |-> kind, ip |-> ip, port |-> port]

\* TcpListener::new(addr).acme()...quinn(addr)
AcmeListener(ip, port) == {Acceptor("acme", ip, port), Acceptor("quic", ip, port)}
\* TcpListener::new(addr).rustls(config)
RustlsListener(ip, port) == {Acceptor("tls", ip, port)}
\* QuinnListener::new(config, addr)
QuinnListener(ip, port) == {Acceptor("quic", ip, port)}
\* TcpListener::new(addr)
TcpListener(ip, port) == {Acceptor("tcp", ip, port)}

\* the acme branch: what is bound
AcmeAcceptors(win, v4, v6, port) ==
    IF v6 # None
    THEN IF win THEN AcmeListener(v4, port) \cup AcmeListener(v6, port)
         ELSE AcmeListener(v6, port)
    ELSE AcmeListener(v4, port)

\* the tls branch with the IPv4 listeners joined on every target
TlsAcceptorsJoined(win, v4, v6, port) ==
    IF v6 # None
    THEN QuinnListener(v4, port) \cup QuinnListener(v6, port)
         \cup RustlsListener(v6, port) \cup RustlsListener(v4, port)
    ELSE QuinnListener(v4, port) \cup RustlsListener(v4, port)

\* the tls branch: what is bound
TlsAcceptors(win, v4, v6, port) ==
    IF v6 # None
    THEN IF win
         THEN QuinnListener(v4, port) \cup QuinnListener(v6, port)
              \cup RustlsListener(v6, port) \cup RustlsListener(v4, port)
         ELSE QuinnListener(v6, port) \cup RustlsListener(v6, port)
    ELSE QuinnListener(v4, port) \cup RustlsListener(v4, port)

\* the plain branch with the IPv6 listener bound alone whatever its address
PlainAcceptorsV6Alone(win, v4, v6, port) ==
    IF v6 # None THEN TcpListener(v6, port) ELSE TcpListener(v4, port)

\* the plain branch: what is bound
PlainAcceptors(win, v4, v6, port) ==
    IF v6 # None
    THEN IF win THEN TcpListener(v4, port) \cup TcpListener(v6, port)
         ELSE IF IsUnspecified(v6) THEN TcpListener(v6, port)
         ELSE TcpListener(v4, port) \cup TcpListener(v6, port)
    ELSE TcpListener(v4, port)

\* the address and port main listens on
IpAddr == UnwrapOr(args.ip, listen.ip)
Port == UnwrapOr(args.port, listen.port)

BoundAcceptors ==
    LET a == SplitIp(IpAddr)
    IN  CASE Strategy(flags) = "acme" -> AcmeAcceptors(windows, a.v4, a.v6, Port)
          [] Strategy(flags) = "tls" -> TlsAcceptors(windows, a.v4, a.v6, Port)
          [] OTHER -> PlainAcceptors(windows, a.v4, a.v6, Port)

(***************************************************************************)
(* main, step by step.                                                     *)
(***************************************************************************)
Panic(what) ==
    /\ pc' = "panicked"
    /\ failed' = what

Did(e) == events' = Append(events, e)

\* load_config(path).await.expect("load config failed")
LoadConfig ==
    /\ pc = "load_config"
    /\ \/ /\ \E l \in Listens : listen' = l
          /\ web' \in BOOLEAN
          /\ pc' = "build_request"
          /\ Did("config")
          /\ UNCHANGED failed
       \/ /\ Panic("load config failed")
          /\ UNCHANGED <<listen, web, events>>
    /\ UNCHANGED <<bpVars, cpVars, envVars, channel, webVars, plugVars, netVars>>

\* config.clone().try_into().expect("load model failed")
BuildRequest ==
    /\ pc = "build_request"
    /\ \/ /\ pc' = "send"
          /\ Did("request")
          /\ UNCHANGED failed
       \/ /\ Panic("load model failed")
          /\ UNCHANGED events
    /\ UNCHANGED <<bpVars, cpVars, envVars, cfgVars, channel, webVars,
                   plugVars, netVars>>

\* let _ = sender.send(ThreadRequest::Reload { .. })
SendReload ==
    /\ pc = "send"
    /\ channel' = Append(channel, "Reload")
    /\ pc' = "serve_path"
    /\ Did("dispatch")
    /\ UNCHANGED <<bpVars, cpVars, failed, envVars, cfgVars, webVars,
                   plugVars, netVars>>

\* match config.web { None => None, .. }
NoWeb ==
    /\ pc = "serve_path"
    /\ ~web
    /\ pc' = "listen"
    /\ UNCHANGED <<bpVars, cpVars, events, failed, envVars, cfgVars, channel,
                   webVars, plugVars, netVars>>

\* tempfile::tempdir() and load_web(web.path, &path).await
LoadWeb ==
    /\ pc = "serve_path"
    /\ web
    /\ \/ /\ \E b \in Bundles : bundle' = b /\ served' = b
          /\ pc' = "plugins_dir"
          /\ Did("web")
          /\ UNCHANGED failed
       \/ /\ Panic("create temp dir failed")
          /\ UNCHANGED <<bundle, served, events>>
       \/ /\ Panic("load frontend failed")
          /\ UNCHANGED <<bundle, served, events>>
    /\ UNCHANGED <<bpVars, cpVars, envVars, cfgVars, channel, serve_path,
                   plugVars, netVars>>

\* if !Path::new("assets/www/plugins").exists() { create_dir(..).expect(..) }
EnsurePluginsDir ==
    /\ pc = "plugins_dir"
    /\ \/ /\ scan_exists
          /\ pc' = "read_dir"
          /\ UNCHANGED <<scan_exists, failed>>
       \/ /\ ~scan_exists
          /\ scan_exists' = TRUE
          /\ pc' = "read_dir"
          /\ UNCHANGED failed
       \/ /\ ~scan_exists
          /\ Panic("create plugins dir failed")
          /\ UNCHANGED scan_exists
    /\ UNCHANGED <<bpVars, cpVars, events, envVars, cfgVars, channel, webVars,
                   scanned, pending, opened, logs, netVars>>

\* match std::fs::read_dir("assets/www/plugins"), with the filters
ReadDir ==
    /\ pc = "read_dir"
    /\ \/ /\ scanned' = TRUE
          /\ pending' = {x \in scan_entries : IsPlugin(x)}
          /\ pc' = "plugins"
          /\ UNCHANGED logs
       \/ /\ logs' = logs \cup {[name |-> <<None>>, ok |-> FALSE, fault |-> "read_dir"]}
          /\ pc' = "plugins"
          /\ UNCHANGED <<scanned, pending>>
    /\ UNCHANGED <<bpVars, cpVars, events, failed, envVars, cfgVars, channel,
                   webVars, scan_exists, opened, netVars>>

\* what main does with the result of load_plugin: log it and go on
AfterPluginPropagate(ok) == IF ok THEN "plugins" ELSE "panicked"

AfterPlugin(ok) == "plugins"

\* one pass of the for loop: load_plugin(x.path(), &path, &name).await
LoadPlugin ==
    /\ pc = "plugins"
    /\ \E x \in pending, fault \in PluginFaults :
          LET name == FileStem(x.name)
              r == load_plugin(served, name, fault)
          IN  /\ served' = r.tree
              /\ opened' = IF r.opened THEN opened \cup {x.name} ELSE opened
              /\ logs' = logs \cup {[name |-> name, ok |-> r.ok, fault |-> fault]}
              /\ pending' = pending \ {x}
              /\ pc' = AfterPlugin(r.ok)
    /\ UNCHANGED <<bpVars, cpVars, events, failed, envVars, cfgVars, channel,
                   bundle, serve_path, scan_exists, scanned, netVars>>

\* Some(path)
PluginsDone ==
    /\ pc = "plugins"
    /\ pending = {}
    /\ serve_path' = TRUE
    /\ pc' = "listen"
    /\ Did("provision")
    /\ UNCHANGED <<bpVars, cpVars, failed, envVars, cfgVars, channel, bundle,
                   served, plugVars, netVars>>

\* the router and the service are built; (acme, tls) is computed
ResolveListen ==
    /\ pc = "listen"
    /\ flags' = EffectiveFlags(listen)
    /\ pc' = IF Strategy(EffectiveFlags(listen)) = "tls" THEN "load_cert" ELSE "bind"
    /\ Did("resolve")
    /\ UNCHANGED <<bpVars, cpVars, failed, envVars, cfgVars, channel, webVars,
                   plugVars, cert_read, acceptors, serves>>

\* where main goes when a certificate file cannot be read, were the error
\* passed over
AfterCertIgnoreError(certOk, keyOk) == "bind"

\* .cert_from_path(..).expect(..).key_from_path(..).expect(..)
AfterCert(certOk, keyOk) == IF certOk /\ keyOk THEN "bind" ELSE "panicked"

LoadCert ==
    /\ pc = "load_cert"
    /\ cert_read' = TRUE
    /\ \E certOk \in BOOLEAN, keyOk \in BOOLEAN :
          /\ pc' = AfterCert(certOk, keyOk)
          /\ failed' = IF ~certOk THEN "unable to find cert.pem"
                       ELSE IF ~keyOk THEN "unable to fine key.pem"
                       ELSE failed
          /\ events' = IF certOk /\ keyOk THEN Append(events, "cert") ELSE events
    /\ UNCHANGED <<bpVars, cpVars, envVars, cfgVars, channel, webVars,
                   plugVars, flags, acceptors, serves>>

\* listener.bind().await: the acceptors of the branch taken, or a panic
Bind ==
    /\ pc = "bind"
    /\ \/ /\ acceptors' = BoundAcceptors
          /\ pc' = "bound"
          /\ Did("bind")
          /\ UNCHANGED failed
       \/ /\ Panic("bind failed")
          /\ UNCHANGED <<acceptors, events>>
    /\ UNCHANGED <<bpVars, cpVars, envVars, cfgVars, channel, webVars,
                   plugVars, flags, cert_read, serves>>

\* salvo::server::Server::new(acceptor).serve(service).await
Serve ==
    /\ pc = "bound"
    /\ serves' = serves + 1
    /\ pc' = "serving"
    /\ Did("serve")
    /\ UNCHANGED <<bpVars, cpVars, failed, envVars, cfgVars, channel, webVars,
                   plugVars, flags, cert_read, acceptors>>

(***************************************************************************)
(* The three specifications.                                               *)
(***************************************************************************)
IdlePermit ==
    /\ fs_dirs = {}
    /\ fs_link = NoLink
    /\ cp_path = NoLink
    /\ cp_permitted = <<>>
    /\ cp_results = <<>>

IdlePath ==
    /\ bp_root = NoLink
    /\ bp_name = NoLink
    /\ bp_result = Err(None)
    /\ bp_pc = "idle"

IdleMain ==
    /\ pc = "idle"
    /\ events = <<>>
    /\ failed = None
    /\ windows = FALSE
    /\ args = [ip |-> None, port |-> None]
    /\ listen = NoListen
    /\ web = FALSE
    /\ channel = <<>>
    /\ bundle = {}
    /\ served = {}
    /\ serve_path = FALSE
    /\ scan_exists = FALSE
    /\ scan_entries = {}
    /\ scanned = FALSE
    /\ pending = {}
    /\ opened = {}
    /\ logs = {}
    /\ flags = NoFlags
    /\ cert_read = FALSE
    /\ acceptors = {}
    /\ serves = 0

PermittedEntries == [abs : {FALSE}, segs : {<<"a">>, <<"b">>, <<"l">>, <<"a", "c">>}]
CheckedPaths == [abs : {FALSE}, segs : SeqsUpTo({"a", "b", "c", "l", ".."}, MaxPathSegs)]

InitPermit ==
    /\ fs_dirs \in Filesystems
    /\ fs_link \in LinkTargets
    /\ cp_path \in CheckedPaths
    /\ cp_permitted \in SeqsUpTo(PermittedEntries, MaxPermitted)
    /\ cp_results = <<>>
    /\ IdlePath
    /\ IdleMain

CallCheckPathPermitted ==
    /\ Len(cp_results) < MaxCalls
    /\ cp_results' = Append(cp_results,
            check_path_permitted(fs_dirs, fs_link, cp_path, cp_permitted))
    /\ UNCHANGED <<fs_dirs, fs_link, cp_path, cp_permitted, bpVars, mainVars>>

NextPermit == CallCheckPathPermitted

SpecPermit == InitPermit /\ [][NextPermit]_vars

InitPath ==
    /\ bp_root \in Paths(MaxRootSegs)
    /\ bp_name \in Paths(MaxNameSegs)
    /\ bp_result = Err(None)
    /\ bp_pc = "call"
    /\ IdlePermit
    /\ IdleMain

CallBuildPath ==
    /\ bp_pc = "call"
    /\ bp_result' = build_path(bp_root, bp_name)
    /\ bp_pc' = "returned"
    /\ UNCHANGED <<bp_root, bp_name, cpVars, mainVars>>

NextPath == CallBuildPath

SpecPath == InitPath /\ [][NextPath]_vars

\* main after Args::parse(), the channel made and model_route spawned
Init ==
    /\ pc = "load_config"
    /\ events = <<>>
    /\ failed = None
    /\ windows \in BOOLEAN
    /\ args \in [ip : ArgIps, port : ArgPorts]
    /\ listen = NoListen
    /\ web = FALSE
    /\ channel = <<>>
    /\ bundle = {}
    /\ served = {}
    /\ serve_path = FALSE
    /\ scan_exists \in BOOLEAN
    /\ scan_entries \in IF scan_exists THEN Listings ELSE {{}}
    /\ scanned = FALSE
    /\ pending = {}
    /\ opened = {}
    /\ logs = {}
    /\ flags = NoFlags
    /\ cert_read = FALSE
    /\ acceptors = {}
    /\ serves = 0
    /\ IdlePath
    /\ IdlePermit

Next ==
    \/ LoadConfig
    \/ BuildRequest
    \/ SendReload
    \/ NoWeb
    \/ LoadWeb
    \/ EnsurePluginsDir
    \/ ReadDir
    \/ LoadPlugin
    \/ PluginsDone
    \/ ResolveListen
    \/ LoadCert
    \/ Bind
    \/ Serve

Spec == Init /\ [][Next]_vars

\* the candidate's text has a whole segment equal to ".."
HasDotDot(p) == \E i \in 1..Len(p.segs) : p.segs[i] = ".."

SamePath(p, q) == Components(p) = Components(q)

\* C1: build_path returns the ".." error, never Ok, for every candidate that
\* has a whole segment equal to "..", wherever the segment is and whether the
\* candidate is relative, absolute or begins with the root.
C1_DotDotRejected ==
    (bp_pc = "returned" /\ HasDotDot(bp_name))
        => (~bp_result.ok /\ bp_result.err = ErrDotDot)

\* a returned call on an absolute candidate that begins with the root and
\* has ".." as a middle segment
C1_Witness ==
    /\ bp_pc = "returned"
    /\ IsAbsolute(bp_name)
    /\ bp_root.segs # <<>>
    /\ StartsWith(bp_name, bp_root)
    /\ Len(bp_name.segs) = 3
    /\ bp_name.segs[2] = ".."
    /\ bp_name.segs[3] # ".."
    /\ ~bp_result.ok

\* C2 as stated: every relative candidate without ".." yields Ok(root joined
\* with the candidate), every Ok result has the root as a prefix, and an
\* absolute candidate outside the root is rejected as not permitted.
C2_Original ==
    bp_pc = "returned" =>
        /\ (~IsAbsolute(bp_name) /\ ~HasDotDot(bp_name))
               => /\ bp_result.ok
                  /\ SamePath(bp_result.path, Join(bp_root, bp_name))
                  /\ StartsWith(bp_result.path, bp_root)
        /\ bp_result.ok => StartsWith(bp_result.path, bp_root)
        /\ (IsAbsolute(bp_name) /\ ~HasDotDot(bp_name)
               /\ ~StartsWith(bp_name, bp_root))
               => (~bp_result.ok /\ bp_result.err = ErrNotPermitted)

\* C2 amended: a relative candidate without ".." yields Ok with the root as a
\* prefix; the path is the candidate itself when the candidate already begins
\* with the root and root joined with the candidate otherwise.  Every Ok
\* result has the root as a prefix and an absolute candidate outside the root
\* is rejected as not permitted.
C2_JoinUnlessPrefixed ==
    bp_pc = "returned" =>
        /\ (~IsAbsolute(bp_name) /\ ~HasDotDot(bp_name))
               => /\ bp_result.ok
                  /\ StartsWith(bp_result.path, bp_root)
                  /\ IF StartsWith(bp_name, bp_root)
                     THEN bp_result.path = bp_name
                     ELSE bp_result.path = Join(bp_root, bp_name)
        /\ bp_result.ok => StartsWith(bp_result.path, bp_root)
        /\ (IsAbsolute(bp_name) /\ ~HasDotDot(bp_name)
               /\ ~StartsWith(bp_name, bp_root))
               => (~bp_result.ok /\ bp_result.err = ErrNotPermitted)

\* a relative candidate that begins with a non-empty relative root and is
\* returned as it is, which differs from root joined with the candidate
C2_Witness ==
    /\ bp_pc = "returned"
    /\ ~IsAbsolute(bp_name)
    /\ ~HasDotDot(bp_name)
    /\ Components(bp_root) # <<>>
    /\ StartsWith(bp_name, bp_root)
    /\ bp_result.ok
    /\ bp_result.path = bp_name
    /\ ~SamePath(bp_result.path, Join(bp_root, bp_name))

\* the canonical path lies under the canonical form of entry i
UnderEntry(i) ==
    LET sub == Canonicalize(fs_dirs, fs_link, Join(CurrentDir, cp_permitted[i]))
        p == Canonicalize(fs_dirs, fs_link, cp_path)
    IN  sub.ok /\ p.ok /\ StartsWith(p.path, sub.path)

\* C9: check_path_permitted returns Ok whenever the canonical path lies under
\* the canonical form of at least one permitted entry, wherever the entry is
\* in the list and whether or not the other entries exist; it returns an error
\* when the path is under none; repeated calls return the same verdict.
C9_AnyEntryPermits ==
    \A k \in 1..Len(cp_results) :
        /\ (\E i \in 1..Len(cp_permitted) : UnderEntry(i)) => cp_results[k].ok
        /\ (\A i \in 1..Len(cp_permitted) : ~UnderEntry(i)) => ~cp_results[k].ok
        /\ cp_results[k].ok = cp_results[1].ok

(***************************************************************************)
(* main: the claims about the listener bootstrap.                          *)
(***************************************************************************)
Happened(e) == \E i \in 1..Len(events) : events[i] = e
Position(e) == CHOOSE i \in 1..Len(events) : events[i] = e
Before(e1, e2) == Happened(e1) /\ Happened(e2) /\ Position(e1) < Position(e2)

Kinds == {a.kind : a \in acceptors}
BoundIps == {a.ip : a \in acceptors}
BoundPorts == {a.port : a \in acceptors}
Ipv6Addr == SplitIp(IpAddr).v6
Ipv4Addr == SplitIp(IpAddr).v4

\* the branch main is in, told by what it did, not by the pair it computed
Selected ==
    IF "acme" \in Kinds THEN "acme"
    ELSE IF "tls" \in Kinds THEN "tls"
    ELSE IF "tcp" \in Kinds THEN "plain"
    ELSE None

\* C3: with domain "local" the ACME strategy is never selected whatever the
\* configured acme flag is, and the configured tls flag alone decides between
\* TLS/QUIC (certificate files read) and plain TCP.
C3_LocalDomain ==
    (Happened("resolve") /\ listen.domain = "local") =>
        /\ ~flags.acme
        /\ flags.tls = listen.tls
        /\ Strategy(flags) = IF listen.tls THEN "tls" ELSE "plain"
        /\ acceptors # {} =>
              /\ Selected = IF listen.tls THEN "tls" ELSE "plain"
              /\ cert_read = listen.tls
              /\ Kinds = IF listen.tls THEN {"tls", "quic"} ELSE {"tcp"}

\* domain "local" with tls and acme both set, serving over TLS/QUIC
C3_Witness ==
    /\ pc = "serving"
    /\ listen.domain = "local"
    /\ listen.tls
    /\ listen.acme
    /\ Selected = "tls"
    /\ cert_read

\* C4 as stated: with another domain the acme flag is the configured one, tls
\* is forced true only when acme is true, and with acme false the configured
\* tls flag decides, so that acme false and tls false select plain TCP and
\* read no certificate file.
C4_Original ==
    (Happened("resolve") /\ listen.domain # "local") =>
        /\ flags.acme = listen.acme
        /\ flags.tls = (listen.acme \/ listen.tls)
        /\ Strategy(flags) = IF listen.acme THEN "acme"
                             ELSE IF listen.tls THEN "tls" ELSE "plain"
        /\ (~listen.acme /\ ~listen.tls) => ~cert_read

\* C4 amended: with another domain the acme flag is the configured one and
\* tls is forced true whatever the configured acme and tls flags are; with
\* acme false the TLS/QUIC strategy is selected and the certificate files are
\* read, also when the configured tls flag is false; plain TCP is never
\* selected.
C4_NonLocalDomainForcesTls ==
    (Happened("resolve") /\ listen.domain # "local") =>
        /\ flags.acme = listen.acme
        /\ flags.tls
        /\ Strategy(flags) = IF listen.acme THEN "acme" ELSE "tls"
        /\ acceptors # {} =>
              /\ Selected = IF listen.acme THEN "acme" ELSE "tls"
              /\ cert_read = ~listen.acme
              /\ "tcp" \notin Kinds

\* another domain with acme and tls both false, serving over TLS/QUIC
C4_Witness ==
    /\ pc = "serving"
    /\ listen.domain # "local"
    /\ ~listen.acme
    /\ ~listen.tls
    /\ Selected = "tls"
    /\ cert_read

\* C5 as stated: in the ACME and the TLS/QUIC strategy, with an IPv6 address
\* an acceptor of the IPv4 address and one of the IPv6 address are bound at
\* the same port; the IPv6 address is never served alone.
C5_Original ==
    (acceptors # {} /\ Selected \in {"acme", "tls"} /\ Ipv6Addr # None) =>
        /\ BoundIps = {Ipv4Addr, Ipv6Addr}
        /\ BoundPorts = {Port}

\* C5 amended: in the ACME and the TLS/QUIC strategy, with an IPv6 address,
\* a build for Windows binds the acceptors of the IPv4 and of the IPv6
\* address at the same port and joins them; a build for any other target
\* binds the acceptors of the IPv6 address alone; both whatever the IPv6
\* address is, the unspecified one included.
C5_JoinedOnWindowsOnly ==
    (acceptors # {} /\ Selected \in {"acme", "tls"} /\ Ipv6Addr # None) =>
        /\ BoundIps = IF windows THEN {Ipv4Addr, Ipv6Addr} ELSE {Ipv6Addr}
        /\ BoundPorts = {Port}
        /\ Kinds = IF Selected = "acme" THEN {"acme", "quic"} ELSE {"tls", "quic"}
        /\ \A ip \in BoundIps, k \in Kinds : Acceptor(k, ip, Port) \in acceptors

\* a build for another target than Windows serving TLS/QUIC on ::1 alone
C5_Witness ==
    /\ pc = "serving"
    /\ ~windows
    /\ Selected = "tls"
    /\ Ipv6Addr = "::1"
    /\ BoundIps = {"::1"}

\* C6 as stated: in the plain TCP strategy, with the unspecified IPv6 address
\* the IPv6 acceptor is bound alone, with another IPv6 address the IPv4 and
\* the IPv6 acceptor are both bound at the same port, and without an IPv6
\* address one TCP acceptor is bound on the IPv4 address and port.
C6_Original ==
    (acceptors # {} /\ Selected = "plain") =>
        /\ (Ipv6Addr # None /\ IsUnspecified(Ipv6Addr))
              => acceptors = {Acceptor("tcp", Ipv6Addr, Port)}
        /\ (Ipv6Addr # None /\ ~IsUnspecified(Ipv6Addr))
              => acceptors = {Acceptor("tcp", Ipv4Addr, Port),
                              Acceptor("tcp", Ipv6Addr, Port)}
        /\ Ipv6Addr = None => acceptors = {Acceptor("tcp", Ipv4Addr, Port)}

\* C6 amended: as stated for every build target but Windows; a build for
\* Windows binds and joins the IPv4 and the IPv6 acceptor whatever the IPv6
\* address is, the unspecified one included.
C6_PlainTcpByTarget ==
    (acceptors # {} /\ Selected = "plain") =>
        /\ (Ipv6Addr # None /\ IsUnspecified(Ipv6Addr) /\ ~windows)
              => acceptors = {Acceptor("tcp", Ipv6Addr, Port)}
        /\ (Ipv6Addr # None /\ (~IsUnspecified(Ipv6Addr) \/ windows))
              => acceptors = {Acceptor("tcp", Unspecified4, Port),
                              Acceptor("tcp", Ipv6Addr, Port)}
        /\ Ipv6Addr = None => acceptors = {Acceptor("tcp", IpAddr, Port)}

\* a build for another target than Windows serving plain TCP on :: alone
C6_Witness ==
    /\ pc = "serving"
    /\ ~windows
    /\ Selected = "plain"
    /\ Ipv6Addr = Unspecified6
    /\ acceptors = {Acceptor("tcp", Unspecified6, Port)}

(***************************************************************************)
(* main: the claims about asset provisioning.                              *)
(***************************************************************************)
PluginLogs == {l \in logs : l.name # <<None>>}
Attempted == {l.name : l \in PluginLogs}

ExtractedInto(tree, stem) ==
    /\ Node(PluginDir(stem), FALSE) \in tree
    /\ Node(PluginContent(stem), TRUE) \in tree

FatalMessages ==
    {"load config failed", "load model failed", "create temp dir failed",
     "load frontend failed", "create plugins dir failed",
     "unable to find cert.pem", "unable to fine key.pem", "bind failed"}

\* C7: whatever subset of the discovered plugins fails to load (the archive
\* cannot be opened, the directory of the plugin exists already, extraction
\* fails), every discovered plugin is attempted and logged, every other one
\* is extracted into its own directory under plugins/ of the served root, no
\* failure of a plugin ends the process and startup goes on to the listener.
C7_PluginFailuresIsolated ==
    /\ (scanned /\ pc # "plugins") =>
          /\ pending = {}
          /\ \A x \in scan_entries : IsPlugin(x) =>
                \E l \in PluginLogs :
                   /\ l.name = FileStem(x.name)
                   /\ l.ok = (l.fault = "none"
                              /\ ~PathExists(bundle, PluginDir(l.name)))
                   /\ l.ok => ExtractedInto(served, l.name)
    /\ pc = "panicked" => failed \in FatalMessages
    /\ (pc = "panicked" /\ PluginLogs # {}) =>
          failed \in {"unable to find cert.pem", "unable to fine key.pem",
                      "bind failed"}

\* serving after one plugin failed to load and another was extracted
C7_Witness ==
    /\ pc = "serving"
    /\ \E l1 \in PluginLogs, l2 \in PluginLogs :
          /\ ~l1.ok
          /\ l2.ok
          /\ ExtractedInto(served, l2.name)

\* the zip files of a listing or of a directory of a tree whose stem is not
\* api, by their names
ZipStems(names) ==
    {SubSeq(f, 1, Len(f) - 1) :
        f \in {g \in names : /\ Len(g) >= 2
                             /\ g[Len(g)] = "zip"
                             /\ g # <<"", "zip">>
                             /\ g # <<"api", "zip">>}}

\* the regular files directly inside plugins/ of the web bundle's tree
ServedRootPluginFiles ==
    {n.path[2] : n \in {m \in bundle : /\ m.file
                                       /\ Len(m.path) = 2
                                       /\ m.path[1] = <<"plugins">>}}

\* the regular files directly inside assets/www/plugins
ScanDirFiles == {x.name : x \in {y \in scan_entries : y.file}}

C10_StartupOrder ==
    /\ acceptors # {} =>
          /\ SubSeq(events, 1, 3) = <<"config", "request", "dispatch">>
          /\ channel = <<"Reload">>
          /\ web => (SubSeq(events, 4, 5) = <<"web", "provision">> /\ serve_path)
          /\ Before("dispatch", "bind")
          /\ web => Before("provision", "bind")
          /\ Strategy(flags) = "tls" => (cert_read /\ Before("cert", "bind"))
    /\ failed \in {"load config failed", "load model failed",
                   "create temp dir failed", "load frontend failed",
                   "unable to find cert.pem", "unable to fine key.pem"}
          => (acceptors = {} /\ pc = "panicked" /\ serves = 0)
    /\ serves <= 1
    /\ serves = 1 => (pc = "serving" /\ events[Len(events)] = "serve"
                      /\ Before("bind", "serve"))
    /\ pc = "panicked" => serves = 0

\* serving over TLS/QUIC with a web bundle, every step taken once
C10_Witness ==
    /\ pc = "serving"
    /\ web
    /\ events = <<"config", "request", "dispatch", "web", "provision",
                  "resolve", "cert", "bind", "serve">>

====
